---- MODULE Spec2Model ----
(***************************************************************************)
(* Model of app.py, the Streamlit front end of the primitive art           *)
(* generator: one script run per form submission, which validates the      *)
(* environment, creates the working directories, saves the upload, runs    *)
(* the external primitive tool, optionally the external converter, shows   *)
(* the result and removes temporary directories.                           *)
(*                                                                         *)
(* Text (paths, arguments, file names) is modelled as sequences of         *)
(* one-character strings, so that str(), lstrip(), join and path           *)
(* operations are computed rather than assumed.                            *)
(***************************************************************************)
EXTENDS Integers, Sequences, FiniteSets, TLC

VARIABLES
    pc,             \* position of the script run
    reqId,          \* number of generation requests submitted so far
    which,          \* executable names shutil.which() finds on the search path
    os_name,        \* os.name
    uploaded_file,  \* uploaded_file.name
    output_format,  \* the selected output format
    form,           \* the other form values
    dirs,           \* directories that exist on disk
    files,          \* files on disk: [dir, name, by], by = request that wrote it
    running,        \* external processes currently running
    primCalls,      \* launches of the primitive tool in this request
    convCalls,      \* launches of the converter in this request
    cmd,            \* the argument list built by generate_artwork
    gif_cmd,        \* the argument list built by create_gif
    command,        \* the value generate_artwork returns
    result,         \* what the primitive process returned (exit status, stderr)
    convResult,     \* what the converter process returned
    final_output,   \* the path of the artifact to present
    exc,            \* the exception being propagated inside the try block
    escaped,        \* exceptions that left the script unhandled
    errors,         \* st.error messages shown in this run
    input_preview,  \* the input preview placeholder
    output_preview, \* the output preview placeholder
    download,       \* the download link
    cmd_display     \* the command display placeholder

vars == <<pc, reqId, which, os_name, uploaded_file, output_format, form, dirs,
          files, running, primCalls, convCalls, cmd, gif_cmd, command, result,
          convResult, final_output, exc, escaped, errors, input_preview,
          output_preview, download, cmd_display>>

----------------------------------------------------------------------------
(* Bounds of the model *)

MaxRequests == 2
MaxFrames == 2

----------------------------------------------------------------------------
(* Text constants *)

INPUT_DIR == <<"t","e","m","p","_","i","n","p","u","t","s">>
FRAME_DIR == <<"t","e","m","p","_","f","r","a","m","e","s">>
OUTPUT_DIR == <<"o","u","t","p","u","t","s">>

PRIMITIVE == <<"p","r","i","m","i","t","i","v","e">>
DOT_EXE == <<".","e","x","e">>
PRIMITIVE_EXE == PRIMITIVE \o DOT_EXE
MAGICK == <<"m","a","g","i","c","k">>
CONVERT == <<"c","o","n","v","e","r","t">>

DOT_PNG == <<".","p","n","g">>
RESULT_PNG == <<"_","r","e","s","u","l","t">> \o DOT_PNG
ANIMATION_GIF == <<"_","a","n","i","m","a","t","i","o","n",".","g","i","f">>
FRAME_PATTERN == <<"%","0","4","d">> \o DOT_PNG
FFFFFF == <<"f","f","f","f","f","f">>
GIF == <<"G","I","F">>

Digits == <<"0","1","2","3","4","5","6","7","8","9">>

----------------------------------------------------------------------------
(* Text operations *)

RECURSIVE Str(_)
Str(n) ==
    IF n < 0 THEN <<"-">> \o Str(-n)
    ELSE IF n < 10 THEN <<Digits[n + 1]>>
    ELSE Str(n \div 10) \o <<Digits[(n % 10) + 1]>>

RECURSIVE LStrip(_, _)
LStrip(s, c) ==
    IF s # <<>> /\ Head(s) = c THEN LStrip(Tail(s), c) ELSE s

StartsWith(s, p) ==
    Len(s) >= Len(p) /\ SubSeq(s, 1, Len(p)) = p

EndsWith(s, p) ==
    Len(s) >= Len(p) /\ SubSeq(s, Len(s) - Len(p) + 1, Len(s)) = p

RECURSIVE Join(_, _)
Join(sep, list) ==
    IF list = <<>> THEN <<>>
    ELSE IF Len(list) = 1 THEN list[1]
    ELSE list[1] \o sep \o Join(sep, Tail(list))

RECURSIVE ZFill(_, _)
ZFill(s, width) ==
    IF Len(s) >= width THEN s ELSE ZFill(<<"0">> \o s, width)

\* pathlib: a path is its parent directory and its final component
Path(parent, name) == [parent |-> parent, name |-> name]
NoPath == Path(<<>>, <<>>)
PathStr(p) == p.parent \o <<"/">> \o p.name

\* Path(name).stem: the name without its last suffix
LastDot(name) ==
    LET idx == {i \in 1..Len(name) : name[i] = "."}
    IN  IF idx = {} THEN 0 ELSE CHOOSE i \in idx : \A j \in idx : j <= i
Stem(name) ==
    LET i == LastDot(name)
    IN  IF i > 1 /\ i < Len(name) THEN SubSeq(name, 1, i - 1) ELSE name

\* "label".split("=")[0]
SplitHead(s, c) ==
    LET idx == {i \in 1..Len(s) : s[i] = c}
    IN  IF idx = {} THEN s
        ELSE SubSeq(s, 1, (CHOOSE i \in idx : \A j \in idx : i <= j) - 1)

----------------------------------------------------------------------------
(* Core functions *)

AllDirs == {INPUT_DIR, FRAME_DIR, OUTPUT_DIR}

\* setup_directories() without the frame directory
setup_directories_no_frames(d) == d \cup {INPUT_DIR} \cup {OUTPUT_DIR}

\* setup_directories(): mkdir(exist_ok=True) of the three directories
setup_directories(d) == d \cup {INPUT_DIR} \cup {FRAME_DIR} \cup {OUTPUT_DIR}

\* the filesystem: the directories that exist and the files in them
Disk(d, fs) == [dirs |-> d, files |-> fs]

\* shutil.rmtree(path, ignore_errors=True): the directory and everything in it
rmtree(disk, path) ==
    Disk(disk.dirs \ {path}, {f \in disk.files : f.dir # path})

\* a finally block that removes the input directory alone
cleanup_input_only(disk) == rmtree(disk, INPUT_DIR)

\* the finally block
cleanup(disk) == rmtree(rmtree(disk, INPUT_DIR), FRAME_DIR)

\* validate_environment(): all([any(which primitive names), any(which converter names)])
validate_environment(w) ==
    /\ \E x \in {PRIMITIVE, PRIMITIVE_EXE} : x \in w
    /\ \E x \in {MAGICK, CONVERT} : x \in w

\* the executable generate_artwork launches
primitive_exe(osn) == PRIMITIVE \o (IF osn = "nt" THEN DOT_EXE ELSE <<>>)

\* the executable create_gif launches
converter_exe(w) == IF MAGICK \in w THEN MAGICK ELSE CONVERT

\* the -bg value without the "ffffff" default
bg_arg_no_default(bg_color) == LStrip(bg_color, "#")

\* params["bg_color"].lstrip("#") or "ffffff"
bg_arg(bg_color) ==
    LET stripped == LStrip(bg_color, "#")
    IN  IF stripped = <<>> THEN FFFFFF ELSE stripped

\* the flags appended for the two verbosity fields
verbose_args(params) ==
    (IF params.verbose THEN << <<"-","v">> >> ELSE <<>>)
    \o (IF params.very_verbose THEN << <<"-","v","v">> >> ELSE <<>>)

\* generate_artwork: the argument list
BuildCmd(params, osn) ==
    << primitive_exe(osn),
       <<"-","i">>, PathStr(params.input_path),
       <<"-","o">>, PathStr(params.output_path),
       <<"-","n">>, Str(params.num_shapes),
       <<"-","m">>, params.mode,
       <<"-","r","e","p">>, Str(params.rep),
       <<"-","n","t","h">>, Str(params.nth),
       <<"-","r">>, Str(params.resize),
       <<"-","s">>, Str(params.output_size),
       <<"-","a">>, Str(params.alpha),
       <<"-","b","g">>, bg_arg(params.bg_color),
       <<"-","j">>, Str(params.workers) >>
    \o verbose_args(params)

\* create_gif: the output path and the argument list
gif_path(base_name) == Path(OUTPUT_DIR, base_name \o ANIMATION_GIF)
GifCmd(w, base_name) ==
    << converter_exe(w),
       <<"-","d","e","l","a","y">>, <<"1","0">>,
       <<"-","l","o","o","p">>, <<"0">>,
       PathStr(Path(FRAME_DIR, <<"*">> \o DOT_PNG)),
       PathStr(gif_path(base_name)) >>

\* the paths prepared at the start of the try block
input_path_of(name) == Path(INPUT_DIR, name)
base_name_of(name) == Stem(name)
output_path_of(name) == Path(OUTPUT_DIR, base_name_of(name) \o RESULT_PNG)

\* a format test that takes every format for GIF
wants_gif_any(fmt) == Len(fmt) >= 0

\* output_format.startswith("GIF")
wants_gif(fmt) == StartsWith(fmt, GIF)

\* the params dictionary
MakeParams(name, fmt, f) ==
    [ input_path   |-> input_path_of(name),
      output_path  |-> IF wants_gif(fmt) THEN Path(FRAME_DIR, FRAME_PATTERN)
                       ELSE output_path_of(name),
      num_shapes   |-> f.num_shapes,
      mode         |-> f.mode,
      rep          |-> f.rep,
      nth          |-> f.nth,
      resize       |-> f.resize,
      output_size  |-> f.output_size,
      alpha        |-> f.alpha,
      bg_color     |-> f.bg_color,
      workers      |-> f.workers,
      verbose      |-> f.verbose,
      very_verbose |-> f.very_verbose ]

\* e.stderr.splitlines()[-1] in the CalledProcessError handler: the exception
\* the expression itself raises, or "" when it yields the last line
last_line_error(e) ==
    IF ~e.has_stderr THEN "AttributeError"
    ELSE IF e.stderr = <<>> THEN "IndexError"
    ELSE ""
last_line(e) == e.stderr[Len(e.stderr)]

----------------------------------------------------------------------------
(* The filesystem *)

FileAt(fs, p) == {f \in fs : f.dir = p.parent /\ f.name = p.name}
Exists(fs, p) == FileAt(fs, p) # {}
\* open(path, "wb") and write: replaces the file of that name
WriteFile(fs, p, by) ==
    {f \in fs : ~(f.dir = p.parent /\ f.name = p.name)}
    \cup {[dir |-> p.parent, name |-> p.name, by |-> by]}
\* FRAME_DIR.glob("*.png")
GlobPng(fs, d) == {f \in fs : f.dir = d /\ EndsWith(f.name, DOT_PNG)}
\* the frame file the pattern %04d.png names for frame i
FrameName(i) == ZFill(Str(i), 4) \o DOT_PNG

----------------------------------------------------------------------------
(* Inputs *)

ExeNames == {PRIMITIVE, PRIMITIVE_EXE, MAGICK, CONVERT}
OsNames == {"posix", "nt"}

\* uploaded file names: two with the same stem, one with another
UploadNames == { <<"a",".","p","n","g">>, <<"a",".","j","p","g">>,
                 <<"b",".","p","n","g">> }

\* entries of the output format selectbox
OutputFormats == { <<"P","N","G">>, <<"G","I","F"," ","*">> }

\* entries of the shape mode selectbox ("<digit>=<label>")
ModeOptions == { <<"0","=","c","o","m","b","o">>,
                 <<"1","=","t","r","i","a","n","g","l","e">> }

\* the form with every widget at its default value
DefaultForm ==
    [ num_shapes |-> 100, mode |-> SplitHead(<<"1","=","t","r","i","a","n","g","l","e">>, "="),
      bg_color |-> <<"#","f","f","f","f","f","f">>, alpha |-> 128,
      resize |-> 256, output_size |-> 1024, rep |-> 0, nth |-> 1,
      workers |-> 0, verbose |-> FALSE, very_verbose |-> FALSE ]

\* the forms a request of the request model submits
RequestForms ==
    { DefaultForm,
      [DefaultForm EXCEPT !.mode = SplitHead(<<"0","=","c","o","m","b","o">>, "="),
                          !.verbose = TRUE] }

\* diagnostic output (stderr lines) a failing tool may write
DiagOutputs == { <<"error">>, <<"warning", "fatal">> }

NoException == {}
Exception(type) == {[type |-> type, has_stderr |-> FALSE, stderr |-> <<>>]}
\* subprocess.run(cmd, check=True) without capture: e.stderr is None
CalledProcessError == {[type |-> "CalledProcessError", has_stderr |-> FALSE, stderr |-> <<>>]}

----------------------------------------------------------------------------
(* The request model *)

Init ==
    /\ pc = "idle"
    /\ reqId = 0
    /\ which = {}
    /\ os_name = "posix"
    /\ uploaded_file = <<>>
    /\ output_format = <<>>
    /\ form = DefaultForm
    /\ dirs = {}
    /\ files = {}
    /\ running = {}
    /\ primCalls = 0
    /\ convCalls = 0
    /\ cmd = <<>>
    /\ gif_cmd = <<>>
    /\ command = <<>>
    /\ result = {}
    /\ convResult = {}
    /\ final_output = NoPath
    /\ exc = NoException
    /\ escaped = {}
    /\ errors = <<>>
    /\ input_preview = {}
    /\ output_preview = {}
    /\ download = {}
    /\ cmd_display = <<>>

\* a script run starts with empty placeholders and no request state
FreshRun ==
    /\ primCalls' = 0
    /\ convCalls' = 0
    /\ cmd' = <<>>
    /\ gif_cmd' = <<>>
    /\ command' = <<>>
    /\ result' = {}
    /\ convResult' = {}
    /\ final_output' = NoPath
    /\ exc' = NoException
    /\ escaped' = {}
    /\ errors' = <<>>
    /\ input_preview' = {}
    /\ output_preview' = {}
    /\ download' = {}
    /\ cmd_display' = <<>>

\* line 147, condition false: a run of the script without a submitted upload
Rerun ==
    /\ pc = "done"
    /\ pc' = "idle"
    /\ uploaded_file' = <<>>
    /\ FreshRun
    /\ UNCHANGED <<reqId, which, os_name, output_format, form, dirs, files, running>>

\* line 147, condition true: the form is submitted with an uploaded file
Submit(name, fmt, f, w, osn) ==
    /\ pc \in {"idle", "done"}
    /\ reqId < MaxRequests
    /\ reqId' = reqId + 1
    /\ pc' = "validate"
    /\ uploaded_file' = name
    /\ output_format' = fmt
    /\ form' = f
    /\ which' = w
    /\ os_name' = osn
    /\ FreshRun
    /\ UNCHANGED <<dirs, files, running>>

\* the environment check without st.stop(): the error is shown and the run goes on
ValidateStep_NoStop ==
    /\ pc = "validate"
    /\ pc' = "setup"
    /\ IF validate_environment(which)
       THEN UNCHANGED errors
       ELSE errors' = Append(errors, [kind |-> "Missing required dependencies", detail |-> ""])
    /\ UNCHANGED <<reqId, which, os_name, uploaded_file, output_format, form, dirs,
                   files, running, primCalls, convCalls, cmd, gif_cmd, command, result,
                   convResult, final_output, exc, escaped, input_preview,
                   output_preview, download, cmd_display>>

\* lines 148-150: the environment check; st.error and st.stop when it fails
ValidateStep ==
    /\ pc = "validate"
    /\ IF validate_environment(which)
       THEN /\ pc' = "setup"
            /\ UNCHANGED errors
       ELSE /\ pc' = "done"
            /\ errors' = Append(errors, [kind |-> "Missing required dependencies", detail |-> ""])
    /\ UNCHANGED <<reqId, which, os_name, uploaded_file, output_format, form, dirs,
                   files, running, primCalls, convCalls, cmd, gif_cmd, command, result,
                   convResult, final_output, exc, escaped, input_preview,
                   output_preview, download, cmd_display>>

\* line 152
SetupStep ==
    /\ pc = "setup"
    /\ dirs' = setup_directories(dirs)
    /\ pc' = "save"
    /\ UNCHANGED <<reqId, which, os_name, uploaded_file, output_format, form,
                   files, running, primCalls, convCalls, cmd, gif_cmd, command, result,
                   convResult, final_output, exc, escaped, errors, input_preview,
                   output_preview, download, cmd_display>>

\* lines 162-163: the upload is written to input_path, or open/write raises
SaveUpload ==
    /\ pc = "save"
    /\ \E ok \in BOOLEAN :
        IF ok /\ INPUT_DIR \in dirs
        THEN /\ files' = WriteFile(files, input_path_of(uploaded_file), reqId)
             /\ pc' = "preview"
             /\ UNCHANGED exc
        ELSE /\ exc' = Exception("OSError")
             /\ pc' = "except"
             /\ UNCHANGED files
    /\ UNCHANGED <<reqId, which, os_name, uploaded_file, output_format, form, dirs,
                   running, primCalls, convCalls, cmd, gif_cmd, command, result,
                   convResult, final_output, escaped, errors, input_preview,
                   output_preview, download, cmd_display>>

\* line 166: the input preview, or st.image raises (an undecodable upload)
ShowInputPreview ==
    /\ pc = "preview"
    /\ \E ok \in BOOLEAN :
        IF ok /\ Exists(files, input_path_of(uploaded_file))
        THEN /\ input_preview' = FileAt(files, input_path_of(uploaded_file))
             /\ pc' = "generate"
             /\ UNCHANGED exc
        ELSE /\ exc' = Exception("ImageError")
             /\ pc' = "except"
             /\ UNCHANGED input_preview
    /\ UNCHANGED <<reqId, which, os_name, uploaded_file, output_format, form, dirs,
                   files, running, primCalls, convCalls, cmd, gif_cmd, command, result,
                   convResult, final_output, escaped, errors,
                   output_preview, download, cmd_display>>

\* generate_artwork, lines 32-50: the argument list is built and the primitive
\* tool is launched; subprocess.run raises when the executable is not found
LaunchPrimitive ==
    /\ pc = "generate"
    /\ cmd' = BuildCmd(MakeParams(uploaded_file, output_format, form), os_name)
    /\ IF cmd'[1] \in which
       THEN /\ running' = running \cup {"primitive"}
            /\ primCalls' = primCalls + 1
            /\ pc' = "primitive"
            /\ UNCHANGED exc
       ELSE /\ exc' = Exception("FileNotFoundError")
            /\ pc' = "except"
            /\ UNCHANGED <<running, primCalls>>
    /\ UNCHANGED <<reqId, which, os_name, uploaded_file, output_format, form, dirs,
                   files, convCalls, gif_cmd, command, result, convResult, final_output,
                   escaped, errors, input_preview, output_preview, download,
                   cmd_display>>

\* what the primitive tool leaves on disk: frames for a %-pattern output path,
\* the output image otherwise; nothing is written into a missing directory
PrimitiveOutput(fs, d, out, rc, n, by) ==
    IF out.parent \notin d THEN fs
    ELSE IF \E i \in 1..Len(out.name) : out.name[i] = "%"
    THEN fs \cup {[dir |-> out.parent, name |-> FrameName(i), by |-> by] : i \in 1..n}
    ELSE IF rc = 0 THEN WriteFile(fs, out, by)
    ELSE fs

\* generate_artwork, lines 50-51, and line 189: the primitive process ends with
\* any exit status (not checked); the joined command is returned and
\* final_output is set to output_path
PrimitiveReturns ==
    /\ pc = "primitive"
    /\ \E rc \in {0, 1}, n \in 0..MaxFrames, diag \in DiagOutputs :
        LET out == MakeParams(uploaded_file, output_format, form).output_path
        IN  /\ rc = 0 => (n >= 1 /\ out.parent \in dirs)
            /\ files' = PrimitiveOutput(files, dirs, out, rc, n, reqId)
            /\ result' = {[returncode |-> rc,
                           stderr |-> IF rc = 0 THEN <<>> ELSE diag]}
    /\ running' = running \ {"primitive"}
    /\ command' = Join(<<" ">>, cmd)
    /\ final_output' = output_path_of(uploaded_file)
    /\ pc' = IF wants_gif(output_format) THEN "convert" ELSE "present"
    /\ UNCHANGED <<reqId, which, os_name, uploaded_file, output_format, form, dirs,
                   primCalls, convCalls, cmd, gif_cmd, convResult, exc, escaped,
                   errors, input_preview, output_preview, download, cmd_display>>

\* create_gif, lines 55-63: the converter is launched
LaunchConverter ==
    /\ pc = "convert"
    /\ gif_cmd' = GifCmd(which, base_name_of(uploaded_file))
    /\ IF gif_cmd'[1] \in which
       THEN /\ running' = running \cup {"converter"}
            /\ convCalls' = convCalls + 1
            /\ pc' = "converter"
            /\ UNCHANGED exc
       ELSE /\ exc' = Exception("FileNotFoundError")
            /\ pc' = "except"
            /\ UNCHANGED <<running, convCalls>>
    /\ UNCHANGED <<reqId, which, os_name, uploaded_file, output_format, form, dirs,
                   files, primCalls, cmd, command, result, convResult, final_output,
                   escaped, errors, input_preview, output_preview, download,
                   cmd_display>>

\* create_gif, lines 63-64: check=True raises CalledProcessError on a non-zero
\* exit status; otherwise the GIF path is returned into final_output
ConverterReturns ==
    /\ pc = "converter"
    /\ \E rc \in {0, 1}, diag \in DiagOutputs :
        /\ rc = 0 => OUTPUT_DIR \in dirs
        /\ convResult' = {[returncode |-> rc,
                           stderr |-> IF rc = 0 THEN <<>> ELSE diag]}
        /\ IF rc = 0
           THEN /\ files' = WriteFile(files, gif_path(base_name_of(uploaded_file)), reqId)
                /\ final_output' = gif_path(base_name_of(uploaded_file))
                /\ pc' = "unlink"
                /\ UNCHANGED exc
           ELSE /\ exc' = CalledProcessError
                /\ pc' = "except"
                /\ UNCHANGED <<files, final_output>>
    /\ running' = running \ {"converter"}
    /\ UNCHANGED <<reqId, which, os_name, uploaded_file, output_format, form, dirs,
                   primCalls, convCalls, cmd, gif_cmd, command, result, escaped,
                   errors, input_preview, output_preview, download, cmd_display>>

\* lines 192-193: every frame matching *.png is unlinked
RemoveFrames ==
    /\ pc = "unlink"
    /\ files' = files \ GlobPng(files, FRAME_DIR)
    /\ pc' = "present"
    /\ UNCHANGED <<reqId, which, os_name, uploaded_file, output_format, form, dirs,
                   running, primCalls, convCalls, cmd, gif_cmd, command, result,
                   convResult, final_output, exc, escaped, errors, input_preview,
                   output_preview, download, cmd_display>>

\* line 196: the output preview shows the file at final_output, or raises
ShowOutputPreview ==
    /\ pc = "present"
    /\ IF Exists(files, final_output)
       THEN /\ output_preview' = FileAt(files, final_output)
            /\ pc' = "download"
            /\ UNCHANGED exc
       ELSE /\ exc' = Exception("FileNotFoundError")
            /\ pc' = "except"
            /\ UNCHANGED output_preview
    /\ UNCHANGED <<reqId, which, os_name, uploaded_file, output_format, form, dirs,
                   files, running, primCalls, convCalls, cmd, gif_cmd, command,
                   result, convResult, final_output, escaped, errors,
                   input_preview, download, cmd_display>>

\* lines 199-215: the file is read and the download link is rendered
ShowDownloadLink ==
    /\ pc = "download"
    /\ IF Exists(files, final_output)
       THEN /\ download' = FileAt(files, final_output)
            /\ pc' = "command"
            /\ UNCHANGED exc
       ELSE /\ exc' = Exception("FileNotFoundError")
            /\ pc' = "except"
            /\ UNCHANGED download
    /\ UNCHANGED <<reqId, which, os_name, uploaded_file, output_format, form, dirs,
                   files, running, primCalls, convCalls, cmd, gif_cmd, command,
                   result, convResult, final_output, escaped, errors,
                   input_preview, output_preview, cmd_display>>

\* line 218
ShowCommand ==
    /\ pc = "command"
    /\ cmd_display' = command
    /\ pc' = "finally"
    /\ UNCHANGED <<reqId, which, os_name, uploaded_file, output_format, form, dirs,
                   files, running, primCalls, convCalls, cmd, gif_cmd, command,
                   result, convResult, final_output, exc, escaped, errors,
                   input_preview, output_preview, download>>

\* lines 220-223: the two except clauses; an exception raised inside a handler
\* leaves the script after the finally block
HandleException ==
    /\ pc = "except"
    /\ \E e \in exc :
        IF e.type = "CalledProcessError"
        THEN IF last_line_error(e) = ""
             THEN /\ errors' = Append(errors, [kind |-> "Processing error",
                                               detail |-> last_line(e)])
                  /\ UNCHANGED escaped
             ELSE /\ escaped' = escaped \cup {last_line_error(e)}
                  /\ UNCHANGED errors
        ELSE /\ errors' = Append(errors, [kind |-> "Unexpected error",
                                          detail |-> e.type])
             /\ UNCHANGED escaped
    /\ exc' = NoException
    /\ pc' = "finally"
    /\ UNCHANGED <<reqId, which, os_name, uploaded_file, output_format, form, dirs,
                   files, running, primCalls, convCalls, cmd, gif_cmd, command,
                   result, convResult, final_output, input_preview,
                   output_preview, download, cmd_display>>

\* lines 224-226: the finally block
Cleanup ==
    /\ pc = "finally"
    /\ dirs' = cleanup(Disk(dirs, files)).dirs
    /\ files' = cleanup(Disk(dirs, files)).files
    /\ pc' = "done"
    /\ UNCHANGED <<reqId, which, os_name, uploaded_file, output_format, form,
                   running, primCalls, convCalls, cmd, gif_cmd, command, result,
                   convResult, final_output, exc, escaped, errors, input_preview,
                   output_preview, download, cmd_display>>

SubmitAny ==
    \E name \in UploadNames, fmt \in OutputFormats, f \in RequestForms,
       w \in SUBSET ExeNames, osn \in OsNames :
        Submit(name, fmt, f, w, osn)

Next ==
    \/ SubmitAny
    \/ Rerun
    \/ ValidateStep
    \/ SetupStep
    \/ SaveUpload
    \/ ShowInputPreview
    \/ LaunchPrimitive
    \/ PrimitiveReturns
    \/ LaunchConverter
    \/ ConverterReturns
    \/ RemoveFrames
    \/ ShowOutputPreview
    \/ ShowDownloadLink
    \/ ShowCommand
    \/ HandleException
    \/ Cleanup

Spec == Init /\ [][Next]_vars

----------------------------------------------------------------------------
(* Properties of the request model *)

Finished == pc = "done"
PassedCheck == validate_environment(which)
Failed(res) == \E r \in res : r.returncode # 0
Frames(fs) == {f \in fs : f.dir = FRAME_DIR}
GifRequested == StartsWith(output_format, GIF)

\* C1: after any request that passed the environment check, whatever its
\* outcome, none of temp_inputs, temp_frames and outputs exists.
C1_AllThreeDirectoriesAbsent ==
    (Finished /\ PassedCheck) => dirs \cap AllDirs = {}

\* C2: when an external tool exits with a non-zero status, the request ends
\* with a "Processing error" showing the last line of that tool's diagnostic
\* output, and with no output preview and no download link.
C2_ToolFailureShowsLastLine ==
    (Finished /\ (Failed(result) \/ Failed(convResult))) =>
        /\ \E i \in 1..Len(errors) :
            /\ errors[i].kind = "Processing error"
            /\ \E r \in result \cup convResult :
                /\ r.returncode # 0
                /\ errors[i].detail = r.stderr[Len(r.stderr)]
        /\ output_preview = {}
        /\ download = {}

\* C3: when the environment check fails the run stops at once: the missing
\* dependency error is reported, no directory is created, the upload is not
\* written and no external tool is launched, in that step or later in the run.
C3_AbortBeforeAnyWork ==
    /\ [][(pc = "validate" /\ ~validate_environment(which)) =>
            /\ pc' = "done"
            /\ Len(errors') = 1
            /\ errors'[1].kind = "Missing required dependencies"
            /\ dirs' = dirs
            /\ files' = files
            /\ running' = {}]_vars
    /\ []((reqId > 0 /\ ~validate_environment(which)) =>
            /\ pc \in {"validate", "done", "idle"}
            /\ primCalls = 0
            /\ convCalls = 0
            /\ running = {}
            /\ cmd = <<>>
            /\ gif_cmd = <<>>
            /\ \A f \in files : f.by # reqId)

\* a second request stopped by the environment check while the directory an
\* earlier request left behind is still there
C3_Witness ==
    /\ Finished
    /\ ~PassedCheck
    /\ reqId = 2
    /\ Len(errors) = 1
    /\ dirs # {}

\* C4: every exception raised between setup_directories and the end of the try
\* block, a failure of create_gif included, is caught and displayed: none
\* leaves the script, and a converter failure ends with an error message.
C4_NoExceptionEscapes ==
    /\ escaped = {}
    /\ (pc \in {"finally", "done"} /\ Failed(convResult)) => errors # <<>>

\* C5: validate_environment is true iff a primitive name and a converter name
\* are found, and whenever it is true the executables that generate_artwork
\* and create_gif launch are names found on the search path.
C5_LaunchedNamesWereFound ==
    /\ validate_environment(which) <=>
        /\ (PRIMITIVE \in which \/ PRIMITIVE_EXE \in which)
        /\ (MAGICK \in which \/ CONVERT \in which)
    /\ (reqId > 0 /\ validate_environment(which)) =>
        /\ cmd # <<>> => cmd[1] \in which
        /\ gif_cmd # <<>> => gif_cmd[1] \in which

\* C7: with GIF output the primitive tool's output path is
\* temp_frames/%04d.png, otherwise outputs/<stem>_result.png; no frame file is
\* left when the request has finished, whether the converter succeeded or
\* failed; and no frame is deleted before the converter has run over the frames.
C7_FramesRoutedAndRemoved ==
    /\ [](cmd # <<>> =>
            /\ cmd[4] = <<"-","o">>
            /\ cmd[5] = IF GifRequested
                        THEN <<"t","e","m","p","_","f","r","a","m","e","s","/",
                               "%","0","4","d",".","p","n","g">>
                        ELSE <<"o","u","t","p","u","t","s","/">>
                             \o <<uploaded_file[1]>>
                             \o <<"_","r","e","s","u","l","t",".","p","n","g">>)
    /\ [](Finished => Frames(files) = {})
    /\ [][~(Frames(files) \subseteq Frames(files')) =>
            /\ convCalls = 1
            /\ convResult # {}
            /\ "converter" \notin running]_vars

\* a GIF request whose converter failed, finished
C7_Witness ==
    /\ Finished
    /\ GifRequested
    /\ Failed(convResult)
    /\ cmd # <<>>
    /\ Frames(files) = {}

\* C8, as claimed: in a finished request (requests stopped by the environment
\* check left aside) the primitive tool was invoked exactly once, the converter
\* was invoked iff GIF output was requested, and never two processes at once.
C8_ExactlyOnePrimitiveCall ==
    /\ Cardinality(running) <= 1
    /\ (Finished /\ PassedCheck) =>
        /\ primCalls = 1
        /\ convCalls = (IF GifRequested THEN 1 ELSE 0)

\* a request has run to the presentation of its result
Presented ==
    \/ pc \in {"present", "download", "command"}
    \/ pc \in {"finally", "done"} /\ cmd_display # <<>>

\* C8, amended: at most one invocation of each tool; the converter only for
\* GIF output and only after the primitive invocation has completed; never two
\* processes at once; exactly one primitive invocation, and a converter
\* invocation iff GIF output was requested, in a request that reaches the
\* presentation of its result.
C8_AtMostOnceInOrder ==
    /\ primCalls <= 1
    /\ convCalls <= 1
    /\ Cardinality(running) <= 1
    /\ "primitive" \in running => primCalls = 1 /\ convCalls = 0
    /\ convCalls = 1 =>
        /\ GifRequested
        /\ primCalls = 1
        /\ result # {}
        /\ "primitive" \notin running
    /\ Presented =>
        /\ primCalls = 1
        /\ convCalls = (IF GifRequested THEN 1 ELSE 0)
        /\ running = {}

\* a GIF request presented after both tools ran
C8_Witness ==
    /\ Presented
    /\ Finished
    /\ GifRequested
    /\ primCalls = 1
    /\ convCalls = 1

\* C9: whenever an external process is launched or running, the three
\* directories exist and the upload is on disk under temp_inputs; directories
\* are removed only by the finally block, with no process running, and no
\* process is launched afterwards in the same request.
C9_DirectoriesExistWhileToolsRun ==
    /\ [](running # {} =>
            /\ AllDirs \subseteq dirs
            /\ \E f \in files :
                /\ f.dir = INPUT_DIR
                /\ f.name = uploaded_file
                /\ f.by = reqId)
    /\ [][(running' \ running # {}) =>
            /\ AllDirs \subseteq dirs
            /\ Exists(files, Path(INPUT_DIR, uploaded_file))
            /\ pc \in {"generate", "convert"}]_vars
    /\ [][~(dirs \subseteq dirs') =>
            /\ running = {}
            /\ pc = "finally"
            /\ pc' = "done"]_vars
    /\ [][(pc = "done" /\ reqId' = reqId) => running' = {}]_vars

\* the converter running in a second request
C9_Witness ==
    /\ running = {"converter"}
    /\ reqId = 2
    /\ AllDirs \subseteq dirs

\* C10: the artifact a request previews and offers for download was written
\* by that same request, never left on disk by an earlier one.
C10_ArtifactFromThisRequest ==
    \A f \in output_preview \cup download : f.by = reqId

----------------------------------------------------------------------------
(* The argument list of generate_artwork, over a range of configuration      *)
(* records                                                                   *)

CmdNames == { <<"a",".","p","n","g">>, <<"b",".","p","n","g">> }

CmdColors == { <<>>, <<"#">>, <<"f","f","f","f","f","f">>,
               <<"#","f","f","f","f","f","f">>, <<"#","0","0","0","0","0","0">> }

\* <<resize, output_size, rep, nth, workers>>
CmdAdvanced == { <<256, 1024, 0, 1, 0>>, <<64, 1024, 0, 1, 4>>,
                 <<256, 4096, 100, 1, 0>>, <<256, 1024, 0, 25, 16>> }

CmdForms ==
    { [ num_shapes |-> n, mode |-> SplitHead(m, "="), bg_color |-> bg,
        alpha |-> a, resize |-> adv[1], output_size |-> adv[2],
        rep |-> adv[3], nth |-> adv[4], workers |-> adv[5],
        verbose |-> v, very_verbose |-> vv ] :
      n \in {10, 100}, m \in ModeOptions, bg \in CmdColors, a \in {0, 128},
      adv \in CmdAdvanced, v \in BOOLEAN, vv \in BOOLEAN }

CmdParams ==
    { MakeParams(name, fmt, f) :
      name \in CmdNames, fmt \in OutputFormats, f \in CmdForms }

InitCmd ==
    /\ pc = "args"
    /\ uploaded_file \in CmdNames
    /\ output_format \in OutputFormats
    /\ form \in CmdForms
    /\ os_name \in OsNames
    /\ reqId = 0
    /\ which = {}
    /\ dirs = {}
    /\ files = {}
    /\ running = {}
    /\ primCalls = 0
    /\ convCalls = 0
    /\ cmd = <<>>
    /\ gif_cmd = <<>>
    /\ command = <<>>
    /\ result = {}
    /\ convResult = {}
    /\ final_output = NoPath
    /\ exc = NoException
    /\ escaped = {}
    /\ errors = <<>>
    /\ input_preview = {}
    /\ output_preview = {}
    /\ download = {}
    /\ cmd_display = <<>>

\* generate_artwork, lines 32-48 and 51, without the process
BuildArgs ==
    /\ pc = "args"
    /\ cmd' = BuildCmd(MakeParams(uploaded_file, output_format, form), os_name)
    /\ command' = Join(<<" ">>, cmd')
    /\ pc' = "built"
    /\ UNCHANGED <<reqId, which, os_name, uploaded_file, output_format, form, dirs,
                   files, running, primCalls, convCalls, gif_cmd, result,
                   convResult, final_output, exc, escaped, errors, input_preview,
                   output_preview, download, cmd_display>>

NextCmd == BuildArgs

SpecCmd == InitCmd /\ [][NextCmd]_vars

\* every record of the range with its argument list
CmdTable == [o \in OsNames |-> {<<q, BuildCmd(q, o)>> : q \in CmdParams}]

\* the decimal value of a string of digits
RECURSIVE DecValue(_)
DecValue(s) ==
    IF s = <<>> THEN 0
    ELSE 10 * DecValue(SubSeq(s, 1, Len(s) - 1))
         + ((CHOOSE d \in 1..10 : Digits[d] = s[Len(s)]) - 1)

\* s is the decimal numeral of n, n >= 0
IsNumeral(s, n) ==
    /\ s # <<>>
    /\ \A i \in 1..Len(s) : \E d \in 1..10 : Digits[d] = s[i]
    /\ Len(s) > 1 => s[1] # "0"
    /\ DecValue(s) = n

\* s without its leading '#' characters, "ffffff" when nothing is left
ColorArg(s) ==
    LET hashes == {i \in 0..Len(s) : \A j \in 1..i : s[j] = "#"}
        k == CHOOSE i \in hashes : \A j \in hashes : j <= i
    IN  IF k = Len(s) THEN <<"f","f","f","f","f","f">>
        ELSE SubSeq(s, k + 1, Len(s))

CmdFlagOrder ==
    << <<"-","i">>, <<"-","o">>, <<"-","n">>, <<"-","m">>, <<"-","r","e","p">>,
       <<"-","n","t","h">>, <<"-","r">>, <<"-","s">>, <<"-","a">>,
       <<"-","b","g">>, <<"-","j">> >>

BuiltParams == MakeParams(uploaded_file, output_format, form)

\* C6, as claimed: two records that differ in any field give different
\* argument lists.
C6_DistinctRecordsDistinctLists ==
    pc = "built" =>
        \A e \in CmdTable[os_name] : e[1] # BuiltParams => e[2] # cmd

\* C6, amended: the argument list holds the eleven flags in the fixed order,
\* each followed by the string form of its field (alpha 128 gives "128"); the
\* -bg value is the background color without leading '#', "ffffff" when that
\* is empty; "-v" is appended iff verbose and "-vv" iff very_verbose; and two
\* records give the same list exactly when they agree in every field other
\* than bg_color and their -bg values are equal.
C6_ArgumentListReflectsFields ==
    pc = "built" =>
        LET p == BuiltParams
            rest == SubSeq(cmd, 24, Len(cmd))
        IN  /\ Len(cmd) >= 23
            /\ [i \in 1..11 |-> cmd[2 * i]] = CmdFlagOrder
            /\ cmd[3] = p.input_path.parent \o <<"/">> \o p.input_path.name
            /\ cmd[5] = p.output_path.parent \o <<"/">> \o p.output_path.name
            /\ IsNumeral(cmd[7], p.num_shapes)
            /\ cmd[9] = p.mode
            /\ IsNumeral(cmd[11], p.rep)
            /\ IsNumeral(cmd[13], p.nth)
            /\ IsNumeral(cmd[15], p.resize)
            /\ IsNumeral(cmd[17], p.output_size)
            /\ IsNumeral(cmd[19], p.alpha)
            /\ p.alpha = 128 => cmd[19] = <<"1","2","8">>
            /\ cmd[21] = ColorArg(p.bg_color)
            /\ p.bg_color = <<>> => cmd[21] = <<"f","f","f","f","f","f">>
            /\ IsNumeral(cmd[23], p.workers)
            /\ rest = (IF p.verbose THEN << <<"-","v">> >> ELSE <<>>)
                      \o (IF p.very_verbose THEN << <<"-","v","v">> >> ELSE <<>>)
            /\ \A e \in CmdTable[os_name] :
                e[2] = cmd <=>
                    /\ [e[1] EXCEPT !.bg_color = <<>>] = [p EXCEPT !.bg_color = <<>>]
                    /\ ColorArg(e[1].bg_color) = ColorArg(p.bg_color)

\* the list built for an empty background color, alpha 128 and both
\* verbosity flags
C6_Witness ==
    /\ pc = "built"
    /\ form.bg_color = <<>>
    /\ form.alpha = 128
    /\ form.verbose
    /\ form.very_verbose
    /\ Len(cmd) = 25
    /\ cmd[21] = FFFFFF

====
